---------------------------- MODULE Spec2Model ----------------------------
(***************************************************************************)
(* A model of ifs_pascal/Image_IFS.py: the Image_IFS renderer (constructor, *)
(* add_function, iterate) and the two generators n_sierpinski and          *)
(* polygon_ifs, together with the PIL raster primitives they call          *)
(* (Image.new, resize, transpose, paste with and without a mask).          *)
(*                                                                         *)
(* Images are square RGBA rasters: [size, px] with px a function from      *)
(* <<x, y>> (x to the right, y downwards, as in PIL) to <<r, g, b, a>>.    *)
(* Python floats are modelled as exact reals of four shapes, enough for    *)
(* every value the generators produce:                                     *)
(*   [kind |-> "rat",   num |-> p, den |-> q]    p / q                     *)
(*   [kind |-> "sqrt3", num |-> p, den |-> q]    p * sqrt(3) / q           *)
(*   [kind |-> "cos",   num |-> k, den |-> n]    (2/n) * cos(2*pi*k/n)     *)
(*   [kind |-> "sin",   num |-> k, den |-> n]    (2/n) * sin(2*pi*k/n)     *)
(***************************************************************************)
EXTENDS Integers, Sequences, FiniteSets, TLC

(***************************************************************************)
(* Bounds of the model.                                                    *)
(***************************************************************************)
MaxIter == 2
MaxCalls == 2
MaxFunctions == 2
MaxRows == 3
MaxVertices == 5

ImageSizes == {-1, 0, 1, 2, 3, 4}

(***************************************************************************)
(* Pixels and images                                                       *)
(***************************************************************************)
White == <<255, 255, 255, 255>>
Blue == <<0, 0, 255, 255>>
HalfRed == <<255, 0, 0, 128>>
Clear == <<255, 255, 255, 0>>
Transparent == <<0, 0, 0, 0>>
Black == <<0, 0, 0, 255>>

Coords(n) == (0 .. n - 1) \X (0 .. n - 1)

\* PIL Image.new('RGBA', (n, n), color)
NewImage(n, color) == [size |-> n, px |-> [p \in Coords(n) |-> color]]

\* PIL Image.transpose(Image.FLIP_TOP_BOTTOM)
FlipTopBottom(im) ==
    [size |-> im.size,
     px |-> [p \in Coords(im.size) |-> im.px[<<p[1], im.size - 1 - p[2]>>]]]

\* PIL resize raises ValueError("height and width must be > 0")
ResizeFails(n) == n < 1

\* PIL Image.resize((n, n)), nearest neighbour: the source pixel under the
\* centre of each destination pixel; a resize to the same size is a copy.
Resize(im, n) ==
    IF im.size = n THEN im
    ELSE [size |-> n,
          px |-> [p \in Coords(n) |->
                    im.px[<<((2 * p[1] + 1) * im.size) \div (2 * n),
                            ((2 * p[2] + 1) * im.size) \div (2 * n)>>]]]

\* PIL Image.paste(src, (ox, oy)) without a mask: the pixels of src replace
\* those of dst, alpha included; what falls outside dst is clipped.
Paste(dst, src, ox, oy) ==
    [size |-> dst.size,
     px |-> [p \in Coords(dst.size) |->
               IF /\ ox <= p[1] /\ p[1] < ox + src.size
                  /\ oy <= p[2] /\ p[2] < oy + src.size
               THEN src.px[<<p[1] - ox, p[2] - oy>>]
               ELSE dst.px[p]]]

\* PIL's DIV255: the rounded division by 255 of Paste.c
Div255(a) == (((a + 128) \div 256) + (a + 128)) \div 256

\* PIL's BLEND8(mask, in1, in2)
Blend8(mask, in1, in2) == Div255(in1 * (255 - mask) + in2 * mask)

BlendPixel(out, in, mask) == [i \in 1 .. 4 |-> Blend8(mask, out[i], in[i])]

\* dst.paste(src) with the mask left out: what the comment at
\* Image_IFS.py:130 warns of (the corners of a copy cover the attractor).
PasteUnmasked(dst, src) == src

\* PIL dst.paste(src, mask=src) for RGBA images of one size: every band,
\* alpha included, is blended with the alpha band of the mask.
PasteMasked(dst, src) ==
    [size |-> dst.size,
     px |-> [p \in Coords(dst.size) |->
               BlendPixel(dst.px[p], src.px[p], src.px[p][4])]]

(***************************************************************************)
(* Numbers                                                                 *)
(***************************************************************************)
Rat(p, q) == [kind |-> "rat", num |-> p, den |-> q]
Sqrt3(p, q) == [kind |-> "sqrt3", num |-> p, den |-> q]
Cos(k, n) == [kind |-> "cos", num |-> k, den |-> n]
Sin(k, n) == [kind |-> "sin", num |-> k, den |-> n]

\* Equality of two rationals (denominators may be negative, never 0)
RatEq(a, b) == a.kind = "rat" /\ b.kind = "rat" /\ a.num * b.den = b.num * a.den

\* a / b truncated towards zero, as Python's int() truncates
Trunc(a, b) ==
    IF b < 0 THEN (IF a >= 0 THEN -(a \div (-b)) ELSE (-a) \div (-b))
    ELSE (IF a >= 0 THEN a \div b ELSE -((-a) \div b))

\* floor(sqrt(3) * a / b) for a >= 0, b > 0
FloorSqrt3(a, b) ==
    CHOOSE m \in 0 .. 2 * a : /\ m * m * b * b <= 3 * a * a
                              /\ (m + 1) * (m + 1) * b * b > 3 * a * a

\* One step of the Horner form of a Taylor series, in units of 1/10000:
\* 1 - (x2 / d) * inner
Horner(x2, d, inner) == 10000 - (x2 * inner) \div (d * 10000)

\* cos and sin of an angle in [0, pi/2) from its square x2 (and x), all in
\* units of 1/10000: the Taylor series to x^10 and x^9
CosSeries(x2) ==
    Horner(x2, 2, Horner(x2, 12, Horner(x2, 30, Horner(x2, 56,
           Horner(x2, 90, 10000)))))

SinSeries(x, x2) ==
    (x * Horner(x2, 6, Horner(x2, 20, Horner(x2, 42,
                Horner(x2, 72, 10000))))) \div 10000

CosFix(x) == CosSeries((x * x) \div 10000)

SinFix(x) == SinSeries(x, (x * x) \div 10000)

\* <<cos, sin>> of an angle in quadrant q from those of its rest
Quadrant(q, c, s) ==
    CASE q = 0 -> <<c, s>>
      [] q = 1 -> <<-s, c>>
      [] q = 2 -> <<-c, -s>>
      [] OTHER -> <<s, -c>>

\* <<cos, sin>> of quadrant q plus x: x in [0, pi/2) in units of 1/10000
Reduced(q, x) == Quadrant(q, CosFix(x), SinFix(x))

\* <<cos, sin>> of 2*pi*k/n in units of 1/10000, 0 <= k < n: the angle is
\* reduced to a quadrant and a rest of (4k mod n)/n of a right angle.
CosSin(k, n) == Reduced((4 * k) \div n, (15708 * ((4 * k) % n)) \div n)

Sign(a) == IF a > 0 THEN 1 ELSE IF a < 0 THEN -1 ELSE 0

\* a / b rounded to the nearest integer, halves upwards (b > 0)
RoundDiv(a, b) == (2 * a + b) \div (2 * b)

\* round(sqrt(3) * a / b) for a >= 0, b > 0
RoundSqrt3(a, b) ==
    CHOOSE m \in 0 .. 2 * a + 1 :
        /\ 12 * a * a < (2 * m + 1) * (2 * m + 1) * b * b
        /\ m > 0 => (2 * m - 1) * (2 * m - 1) * b * b <= 12 * a * a

\* int((2/n) * cos * image_size) or int((2/n) * sin * image_size) from
\* cs = <<cos, sin>> in units of 1/10000.  math.pi lies just below pi, so
\* the angle omega * k lies just below 2*pi*k/n and the computed cos (sin)
\* is off by a last-place error of the sign of sin (of -cos): that decides
\* the truncation where the real value is an integer, as for
\* (2/3) * cos(2*pi/3) * 3 = -0.9999999999999996.
BiasedPixels(cs, value, slope, dir, n, image_size) ==
    Trunc(2 * image_size * cs[value] * 100 + dir * Sign(cs[slope]),
          n * 1000000)

\* round(v * image_size) in the place of int(v * image_size)
ToPixelsRounded(v, image_size) ==
    CASE v.kind = "rat" ->
            IF v.den > 0 THEN RoundDiv(v.num * image_size, v.den)
            ELSE RoundDiv(-v.num * image_size, -v.den)
      [] v.kind = "sqrt3" -> RoundSqrt3(v.num * image_size, v.den)
      [] v.kind = "cos" -> BiasedPixels(CosSin(v.num, v.den), 1, 2, 1,
                                        v.den, image_size)
      [] OTHER -> BiasedPixels(CosSin(v.num, v.den), 2, 1, -1,
                               v.den, image_size)

\* int(v * image_size) for a Python float v (Image_IFS.py:119, 127, 128)
ToPixels(v, image_size) ==
    CASE v.kind = "rat" -> Trunc(v.num * image_size, v.den)
      [] v.kind = "sqrt3" -> FloorSqrt3(v.num * image_size, v.den)
      [] v.kind = "cos" -> BiasedPixels(CosSin(v.num, v.den), 1, 2, 1,
                                        v.den, image_size)
      [] OTHER -> BiasedPixels(CosSin(v.num, v.den), 2, 1, -1,
                               v.den, image_size)

(***************************************************************************)
(* Inputs                                                                  *)
(***************************************************************************)
\* seed_image=None, or a decoded image
None == [given |-> FALSE, im |-> NewImage(0, Transparent)]
Some(im) == [given |-> TRUE, im |-> im]

\* Two opaque rows of different colours: a vertical flip shows.
Rows2 == [size |-> 2,
          px |-> [p \in Coords(2) |-> IF p[2] = 0 THEN Blue ELSE White]]

\* Opaque, fully transparent and partly transparent pixels.
Mixed2 == [size |-> 2,
           px |-> [p \in Coords(2) |->
                     CASE p = <<0, 0>> -> White
                       [] p = <<1, 0>> -> Clear
                       [] p = <<0, 1>> -> HalfRed
                       [] OTHER -> Blue]]

Seeds == {None, Some(Rows2), Some(Mixed2)}

Contraction(scale, tx, ty) == <<scale, <<tx, ty>>>>

\* What a caller hands to add_function: the identity, a half-size copy at
\* the origin, a half-size copy shifted over the first and partly off the
\* canvas, and a scale of 0.
ManualContractions ==
    {Contraction(Rat(1, 1), Rat(0, 1), Rat(0, 1)),
     Contraction(Rat(1, 2), Rat(0, 1), Rat(0, 1)),
     Contraction(Rat(1, 2), Rat(1, 4), Rat(-1, 4)),
     Contraction(Rat(0, 1), Rat(0, 1), Rat(0, 1))}

(***************************************************************************)
(* Image_IFS                                                               *)
(***************************************************************************)
\* PIL Image.new raises ValueError("Width and height must be >= 0")
NewFails(n) == n < 0

\* _default_seed
DefaultSeed(image_size) == NewImage(image_size, White)

\* Image_IFS.__init__ raises what PIL raises
InitFails(seed, image_size) ==
    IF seed.given THEN ResizeFails(image_size) ELSE NewFails(image_size)

\* Image_IFS.__init__: self.seed_image
InitSeed(seed, image_size) ==
    IF seed.given THEN Resize(seed.im, image_size) ELSE DefaultSeed(image_size)

\* The pixel placement of one contraction: <<scale, x_offset, y_offset>>
Placement(contraction, image_size, center_origin) ==
    LET scale == ToPixels(contraction[1], image_size)
        base == IF center_origin THEN scale ELSE 0
    IN  <<scale,
          base + ToPixels(contraction[2][1], image_size),
          base + ToPixels(contraction[2][2], image_size)>>

\* The full-size transparent layer holding the scaled copy
Layer(start_image, contraction, image_size, center_origin) ==
    LET pl == Placement(contraction, image_size, center_origin)
    IN  Paste(NewImage(image_size, Transparent),
              Resize(start_image, pl[1]), pl[2], pl[3])

\* The index of the first contraction whose resize raises, 0 if none does
FirstBad(functions, image_size) ==
    LET bad == {i \in 1 .. Len(functions) :
                  ResizeFails(ToPixels(functions[i][1], image_size))}
    IN  IF bad = {} THEN 0 ELSE CHOOSE i \in bad : \A j \in bad : i <= j

\* The loop over self.functions, from the i-th contraction on
RECURSIVE Composite(_, _, _, _, _, _)
Composite(new_image, start_image, functions, image_size, center_origin, i) ==
    IF i > Len(functions) THEN new_image
    ELSE Composite(PasteMasked(new_image,
                               Layer(start_image, functions[i],
                                     image_size, center_origin)),
                   start_image, functions, image_size, center_origin, i + 1)

\* The image a step starts from
StartImage(image, first_call) ==
    IF first_call THEN FlipTopBottom(image) ELSE image

\* first_call as the recursive call is given it
NextFirstCallKept(first_call) == first_call

NextFirstCall(first_call) == FALSE

\* The guard of the last iteration without its first_call test
IsLastIterationAnyCall(n_iterations, first_call) == n_iterations = 0

IsLastIteration(n_iterations, first_call) ==
    n_iterations = 0 /\ first_call = FALSE

\* The last iteration without the black background
FinalizeNoFill(image, image_size) == FlipTopBottom(image)

\* The last iteration without the flip back
FinalizeNoFlip(image, image_size) ==
    PasteMasked(NewImage(image_size, Black), image)

\* The last iteration: black under the transparency, then the flip back
Finalize(image, image_size) ==
    FlipTopBottom(PasteMasked(NewImage(image_size, Black), image))

\* Image_IFS.iterate.  self holds the object's fields and the trace of the
\* call: events (what was done, in order), placements (per composite step,
\* the placement of each copy pasted), start and canvas (the image the last
\* composite step read and the one it made), raised (resize raised).
RECURSIVE iterate(_, _, _)
iterate(self, n_iterations, first_call) ==
    IF n_iterations > 0
    THEN LET start_image == StartImage(self.image, first_call)
             ev == IF first_call THEN Append(self.events, "flip")
                   ELSE self.events
             bad == FirstBad(self.functions, self.image_size)
             pasted == IF bad = 0 THEN Len(self.functions) ELSE bad - 1
             pls == [i \in 1 .. pasted |->
                       Placement(self.functions[i], self.image_size,
                                 self.center_origin)]
         IN  IF bad # 0
             THEN [self EXCEPT !.events = ev,
                               !.placements = Append(@, pls),
                               !.raised = TRUE]
             ELSE LET new_image ==
                          Composite(NewImage(self.image_size, Transparent),
                                    start_image, self.functions,
                                    self.image_size, self.center_origin, 1)
                  IN  iterate([self EXCEPT !.image = new_image,
                                           !.events = Append(ev, "composite"),
                                           !.placements = Append(@, pls),
                                           !.start = start_image,
                                           !.canvas = new_image],
                              n_iterations - 1, NextFirstCall(first_call))
    ELSE IF IsLastIteration(n_iterations, first_call)
         THEN [self EXCEPT !.image = Finalize(self.image, self.image_size),
                           !.events = Append(@, "finalize")]
         ELSE self

(***************************************************************************)
(* The generators                                                          *)
(***************************************************************************)
\* n_sierpinski: the inner loop with range(0, n) for range(0, n - i)
SierpinskiRowSquare(n, i) ==
    [jj \in 1 .. n |->
       Contraction(Rat(1, n), Rat(i + 2 * (jj - 1), 2 * n), Sqrt3(i, 2 * n))]

\* n_sierpinski: the inner loop, for j in range(0, n - i)
SierpinskiRow(n, i) ==
    [jj \in 1 .. (n - i) |->
       Contraction(Rat(1, n), Rat(i + 2 * (jj - 1), 2 * n), Sqrt3(i, 2 * n))]

\* n_sierpinski: the outer loop, for i in range(0, n), from row i on
RECURSIVE SierpinskiRows(_, _)
SierpinskiRows(n, i) ==
    IF i >= n THEN <<>> ELSE SierpinskiRow(n, i) \o SierpinskiRows(n, i + 1)

\* polygon_ifs: the loop with range(0, n_vertices - 1)
PolygonVerticesShort(n_vertices) ==
    [kk \in 1 .. (n_vertices - 1) |->
       Contraction(Rat(2, n_vertices),
                   Cos(kk - 1, n_vertices), Sin(kk - 1, n_vertices))]

\* polygon_ifs: for k in range(0, n_vertices)
PolygonVertices(n_vertices) ==
    [kk \in 1 .. n_vertices |->
       Contraction(Rat(2, n_vertices),
                   Cos(kk - 1, n_vertices), Sin(kk - 1, n_vertices))]

\* polygon_ifs: the contraction of the centre
PolygonCenter(n_vertices, include_center) ==
    IF include_center
    THEN <<Contraction(Rat(2, n_vertices), Rat(0, 1), Rat(0, 1))>>
    ELSE <<>>

(***************************************************************************)
(* The program: one Image_IFS object, made by the constructor or by a      *)
(* generator, given contractions and then iterated.  An exception that     *)
(* escapes a call ends the run.  Contractions are added before the first   *)
(* iterate call, and iterate is called with its default first_call.        *)
(***************************************************************************)
VARIABLES
    status,         \* "none": no object yet, "ready", "raised"
    made_by,        \* the call that made the object, with its arguments
    seed_image, image, image_size, center_origin, functions,
    added,          \* the number of add_function calls made by the caller
    history,        \* n_iterations of each top-level iterate call so far
    events, placements, start, canvas   \* the trace of the last iterate call

vars == <<status, made_by, seed_image, image, image_size, center_origin,
          functions, added, history, events, placements, start, canvas>>

trace == <<events, placements, start, canvas>>

NoImage == NewImage(0, Transparent)

RECURSIVE SumSeq(_)
SumSeq(s) == IF s = <<>> THEN 0 ELSE Head(s) + SumSeq(Tail(s))

Init ==
    /\ status = "none"
    /\ made_by = [kind |-> "none", n |-> 0, include_center |-> FALSE,
                  image_size |-> 0]
    /\ seed_image = NoImage
    /\ image = NoImage
    /\ image_size = 0
    /\ center_origin = FALSE
    /\ functions = <<>>
    /\ added = 0
    /\ history = <<>>
    /\ events = <<>>
    /\ placements = <<>>
    /\ start = NoImage
    /\ canvas = NoImage

\* Image_IFS.__init__, then the add_function calls of a generator
Make(seed, size, center, fs) ==
    /\ status' = "ready"
    /\ seed_image' = InitSeed(seed, size)
    /\ image' = InitSeed(seed, size)
    /\ image_size' = size
    /\ center_origin' = center
    /\ functions' = fs
    /\ UNCHANGED <<added, history, trace>>

\* An exception escapes the call that was to make the object
Raise ==
    /\ status' = "raised"
    /\ UNCHANGED <<seed_image, image, image_size, center_origin, functions,
                   added, history, trace>>

\* Image_IFS(seed_image, image_size, center_origin)
Image_IFS(seed, size, center) ==
    /\ status = "none"
    /\ made_by' = [kind |-> "Image_IFS", n |-> 0, include_center |-> FALSE,
                   image_size |-> size]
    /\ IF InitFails(seed, size) THEN Raise ELSE Make(seed, size, center, <<>>)

\* add_function(scale, translation)
add_function(contraction) ==
    /\ status = "ready"
    /\ history = <<>>
    /\ Len(functions) < MaxFunctions
    /\ functions' = Append(functions, contraction)
    /\ added' = added + 1
    /\ UNCHANGED <<status, made_by, seed_image, image, image_size,
                   center_origin, history, trace>>

\* n_sierpinski(seed_image, image_size, n): 1 / n raises ZeroDivisionError
n_sierpinski(seed, size, n) ==
    /\ status = "none"
    /\ made_by' = [kind |-> "n_sierpinski", n |-> n, include_center |-> FALSE,
                   image_size |-> size]
    /\ IF InitFails(seed, size) \/ n = 0 THEN Raise
       ELSE Make(seed, size, FALSE, SierpinskiRows(n, 0))

\* polygon_ifs(seed_image, image_size, n_vertices, include_center):
\* 2 / n_vertices raises ZeroDivisionError
polygon_ifs(seed, size, n_vertices, include_center) ==
    /\ status = "none"
    /\ made_by' = [kind |-> "polygon_ifs", n |-> n_vertices,
                   include_center |-> include_center, image_size |-> size]
    /\ IF InitFails(seed, size) \/ n_vertices = 0 THEN Raise
       ELSE Make(seed, size, TRUE,
                 PolygonVertices(n_vertices)
                     \o PolygonCenter(n_vertices, include_center))

\* A top-level iterate(n_iterations)
Iterate(n_iterations) ==
    /\ status = "ready"
    /\ Len(history) < MaxCalls
    /\ SumSeq(history) + n_iterations <= MaxIter
    /\ LET r == iterate([image |-> image, image_size |-> image_size,
                         center_origin |-> center_origin,
                         functions |-> functions,
                         events |-> <<>>, placements |-> <<>>,
                         start |-> NoImage, canvas |-> NoImage,
                         raised |-> FALSE],
                        n_iterations, TRUE)
       IN  /\ status' = IF r.raised THEN "raised" ELSE "ready"
           /\ image' = r.image
           /\ events' = r.events
           /\ placements' = r.placements
           /\ start' = r.start
           /\ canvas' = r.canvas
    /\ history' = Append(history, n_iterations)
    /\ UNCHANGED <<made_by, seed_image, image_size, center_origin, functions,
                   added>>

Next ==
    \/ \E seed \in Seeds, size \in ImageSizes, center \in BOOLEAN :
          Image_IFS(seed, size, center)
    \/ \E contraction \in ManualContractions : add_function(contraction)
    \/ \E seed \in Seeds, size \in ImageSizes, n \in -1 .. MaxRows :
          n_sierpinski(seed, size, n)
    \/ \E seed \in Seeds, size \in ImageSizes, n_vertices \in -1 .. MaxVertices,
          include_center \in BOOLEAN :
          polygon_ifs(seed, size, n_vertices, include_center)
    \/ \E n_iterations \in 0 .. MaxIter : Iterate(n_iterations)

Spec == Init /\ [][Next]_vars

(***************************************************************************)
(* Properties                                                              *)
(***************************************************************************)
\* An object was made (it outlives an iterate call that raised)
Constructed == status = "ready" \/ history # <<>>

LastCount == history[Len(history)]

\* The last top-level iterate call returned
Returned == status = "ready" /\ history # <<>>

Opaque(im) == \A p \in Coords(im.size) : im.px[p][4] = 255

IsZero(v) == v.kind \in {"rat", "sqrt3"} /\ v.num = 0

IsOne(v) == v.kind = "rat" /\ v.num = v.den

\* C1: iterate(0) called first after construction is a no-op: the image is
\* the (resized) seed image, and nothing was flipped, composited or
\* finalized.
C1_IterateZeroIsNoOp ==
    history = <<0>> =>
        /\ status = "ready"
        /\ image = seed_image
        /\ events = <<>>

C1_Witness ==
    /\ history = <<0>>
    /\ functions # <<>>
    /\ image_size >= 2
    /\ seed_image # FlipTopBottom(seed_image)
    /\ ~Opaque(seed_image)

\* C2: after a top-level iterate(k) with k >= 1 every pixel of the image
\* has alpha 255, whatever the alpha of the seed's pixels.
C2_OutputOpaque ==
    (Returned /\ LastCount >= 1) => Opaque(image)

\* C3: a top-level iterate(n), n >= 1, does one flip, then n composite
\* steps, then one finalization, in that order and nothing else; a call
\* that raises has done a prefix of that.
ExpectedEvents(n) ==
    <<"flip">> \o [i \in 1 .. n |-> "composite"] \o <<"finalize">>

IsPrefix(s, t) == Len(s) <= Len(t) /\ \A i \in 1 .. Len(s) : s[i] = t[i]

C3_EventOrder ==
    (history # <<>> /\ LastCount >= 1) =>
        IF status = "ready" THEN events = ExpectedEvents(LastCount)
        ELSE IsPrefix(events, ExpectedEvents(LastCount))

C3_Witness ==
    /\ Returned
    /\ LastCount = 2
    /\ Len(functions) >= 2
    /\ events = <<"flip", "composite", "composite", "finalize">>

\* The image a single iterate(n) makes of the seed image
SingleCall(n) ==
    iterate([image |-> seed_image, image_size |-> image_size,
             center_origin |-> center_origin, functions |-> functions,
             events |-> <<>>, placements |-> <<>>,
             start |-> NoImage, canvas |-> NoImage, raised |-> FALSE],
            n, TRUE).image

\* The default white seed of side 4, centre origin, under two half-size
\* copies that overlap, iterated twice by one step
TwoCalls ==
    /\ made_by.kind = "Image_IFS"
    /\ image_size = 4
    /\ center_origin = TRUE
    /\ seed_image = DefaultSeed(4)
    /\ functions = <<Contraction(Rat(1, 2), Rat(0, 1), Rat(0, 1)),
                     Contraction(Rat(1, 2), Rat(1, 4), Rat(-1, 4))>>
    /\ history = <<1, 1>>
    /\ status = "ready"

\* C4: iterate(a) then iterate(b) is not iterate(a + b): there is a seed, a
\* contraction list and a = b = 1 for which the two images differ (the
\* black background of the first call covers what the second pastes).
C4_NotAdditive == TwoCalls => image # SingleCall(2)

C4_Witness == TwoCalls /\ Opaque(start) /\ ~Opaque(canvas) /\ Opaque(image)

\* C5: no object holds an invalid parameter: image_size > 0, every scale
\* > 0, a polygon of at least 3 vertices, a gasket of at least 1 row.
C5_InputsValidated ==
    Constructed =>
        /\ image_size > 0
        /\ \A i \in 1 .. Len(functions) :
              functions[i][1].num * functions[i][1].den > 0
        /\ made_by.kind = "polygon_ifs" => made_by.n >= 3
        /\ made_by.kind = "n_sierpinski" => made_by.n >= 1

\* The place in the list of the contraction of row i, column j
SierpinskiIndex(n, i, j) == i * n - (i * (i - 1)) \div 2 + j + 1

FromSierpinski ==
    Constructed /\ made_by.kind = "n_sierpinski" /\ made_by.n >= 1 /\ added = 0

\* C6: n_sierpinski(n), n >= 1, makes an object with center_origin false
\* and n(n+1)/2 contractions of scale 1/n, that of row i and column j with
\* x translation (i + 2j) / (2n).
C6_Sierpinski ==
    FromSierpinski =>
        /\ center_origin = FALSE
        /\ 2 * Len(functions) = made_by.n * (made_by.n + 1)
        /\ \A k \in 1 .. Len(functions) :
              RatEq(functions[k][1], Rat(1, made_by.n))
        /\ \A i \in 0 .. made_by.n - 1 : \A j \in 0 .. made_by.n - i - 1 :
              /\ SierpinskiIndex(made_by.n, i, j) \in 1 .. Len(functions)
              /\ RatEq(functions[SierpinskiIndex(made_by.n, i, j)][2][1],
                       Rat(i + 2 * j, 2 * made_by.n))

C6_Witness == FromSierpinski /\ made_by.n = 3 /\ Len(functions) = 6

FromPolygon ==
    Constructed /\ made_by.kind = "polygon_ifs" /\ made_by.n >= 3 /\ added = 0

\* C7: polygon_ifs with n_vertices >= 3 makes an object with center_origin
\* true and n_vertices contractions, one more with include_center, all of
\* scale 2/n_vertices, the one more with translation (0, 0).
C7_Polygon ==
    FromPolygon =>
        /\ center_origin = TRUE
        /\ Len(functions) =
              made_by.n + (IF made_by.include_center THEN 1 ELSE 0)
        /\ \A k \in 1 .. Len(functions) :
              RatEq(functions[k][1], Rat(2, made_by.n))
        /\ made_by.include_center =>
              /\ Len(functions) >= 1
              /\ IsZero(functions[Len(functions)][2][1])
              /\ IsZero(functions[Len(functions)][2][2])

C7_Witness ==
    FromPolygon /\ made_by.n = 5 /\ made_by.include_center /\ Len(functions) = 6

\* The identity contraction alone, corner origin, one iterate(1)
IdentityOnce ==
    /\ center_origin = FALSE
    /\ Len(functions) = 1
    /\ IsOne(functions[1][1])
    /\ IsZero(functions[1][2][1])
    /\ IsZero(functions[1][2][2])
    /\ history = <<1>>

\* C8 as claimed: under the identity contraction iterate(1) leaves the seed
\* image as it is, transparent pixels included.
C8_IdentityAnySeed == IdentityOnce => image = seed_image

\* C8: under the identity contraction, with the origin in the corner,
\* iterate(1) called first leaves a fully opaque seed image as it is.
C8_IdentityOpaqueSeed ==
    (IdentityOnce /\ Opaque(seed_image)) => image = seed_image

C8_Witness ==
    /\ IdentityOnce
    /\ status = "ready"
    /\ Opaque(seed_image)
    /\ seed_image # FlipTopBottom(seed_image)
    /\ events = <<"flip", "composite", "finalize">>

\* m = int(v * image_size): v * image_size truncated towards zero (the
\* values of polygon_ifs's cos and sin are not characterised)
IsTrunc(m, v, size) ==
    CASE v.kind = "rat" ->
            IF v.num * size * v.den >= 0
            THEN /\ m >= 0
                 /\ m * v.den * v.den <= v.num * size * v.den
                 /\ v.num * size * v.den < (m + 1) * v.den * v.den
            ELSE /\ m <= 0
                 /\ m * v.den * v.den >= v.num * size * v.den
                 /\ v.num * size * v.den > (m - 1) * v.den * v.den
      [] v.kind = "sqrt3" ->
            /\ m >= 0
            /\ m * m * v.den * v.den <= 3 * v.num * size * v.num * size
            /\ 3 * v.num * size * v.num * size < (m + 1) * (m + 1) * v.den * v.den
      [] OTHER -> TRUE

Abs(a) == IF a < 0 THEN -a ELSE a

\* m = round(v * image_size): m is an integer nearest to v * image_size
IsRound(m, v, size) ==
    CASE v.kind = "rat" ->
            2 * Abs(v.num * size - m * v.den) <= Abs(v.den)
      [] v.kind = "sqrt3" ->
            /\ m >= 0
            /\ 12 * v.num * size * v.num * size
                  <= (2 * m + 1) * (2 * m + 1) * v.den * v.den
            /\ m > 0 => (2 * m - 1) * (2 * m - 1) * v.den * v.den
                           <= 12 * v.num * size * v.num * size
      [] OTHER -> TRUE

\* The copies of a step were placed as the contractions say, one after the
\* other, by truncation or by rounding
PlacedTruncated(pls) ==
    /\ Len(pls) <= Len(functions)
    /\ \A i \in 1 .. Len(pls) :
          LET base == IF center_origin THEN pls[i][1] ELSE 0
          IN  /\ IsTrunc(pls[i][1], functions[i][1], image_size)
              /\ IsTrunc(pls[i][2] - base, functions[i][2][1], image_size)
              /\ IsTrunc(pls[i][3] - base, functions[i][2][2], image_size)

PlacedRounded(pls) ==
    /\ Len(pls) <= Len(functions)
    /\ \A i \in 1 .. Len(pls) :
          LET base == IF center_origin THEN pls[i][1] ELSE 0
          IN  /\ IsRound(pls[i][1], functions[i][1], image_size)
              /\ IsRound(pls[i][2] - base, functions[i][2][1], image_size)
              /\ IsRound(pls[i][3] - base, functions[i][2][2], image_size)

\* A step that pasted every copy
FullStep(pls) == Len(pls) = Len(functions)

\* An image of side 4 under n_sierpinski(2) after an iterate call that
\* composited
SierpinskiFour ==
    /\ made_by.kind = "n_sierpinski"
    /\ made_by.n = 2
    /\ added = 0
    /\ image_size = 4
    /\ Returned
    /\ LastCount >= 1

\* C9 as claimed: every copy is scaled to round(s * image_size) and pasted
\* at base + round(t * image_size); for image_size 4 and n_sierpinski(2)
\* the copies are at (0, 0), (2, 0) and (1, 2).
C9_PlacementRounded ==
    /\ \A k \in 1 .. Len(placements) : PlacedRounded(placements[k])
    /\ Returned => \A k \in 1 .. Len(placements) : FullStep(placements[k])
    /\ SierpinskiFour =>
          placements[1] = <<<<2, 0, 0>>, <<2, 2, 0>>, <<2, 1, 2>>>>

\* C9: every copy is scaled to int(s * image_size) and pasted at
\* base + int(t * image_size), int truncating towards zero, base the scaled
\* side with the origin in the centre and 0 otherwise; for image_size 4 and
\* n_sierpinski(2) the copies are at (0, 0), (2, 0) and (1, 1).
C9_PlacementTruncated ==
    /\ \A k \in 1 .. Len(placements) : PlacedTruncated(placements[k])
    /\ Returned => \A k \in 1 .. Len(placements) : FullStep(placements[k])
    /\ SierpinskiFour =>
          placements[1] = <<<<2, 0, 0>>, <<2, 2, 0>>, <<2, 1, 1>>>>

C9_Witness ==
    /\ SierpinskiFour
    /\ Len(placements) = 2
    /\ placements[2][3] = <<2, 1, 1>>
    /\ ~IsRound(1, functions[3][2][2], image_size)

\* The layers of the last composite step, in the order of the contractions
Layers ==
    [i \in 1 .. Len(functions) |->
       Layer(start, functions[i], image_size, center_origin)]

\* The pixel of the canvas is that of the last layer that is not
\* transparent there, if that one is opaque; where no layer paints, the
\* canvas stays transparent
TopmostWins(layers, p) ==
    LET painted == {i \in 1 .. Len(layers) : layers[i].px[p][4] > 0}
        top == CHOOSE i \in painted : \A j \in painted : j <= i
    IN  IF painted = {} THEN canvas.px[p] = Transparent
        ELSE layers[top].px[p][4] = 255 => canvas.px[p] = layers[top].px[p]

Composited == \E k \in 1 .. Len(events) : events[k] = "composite"

\* C10: within a composite step the copies are composited in the order of
\* the list, each with its own alpha as the mask: where opaque pixels of
\* several copies meet, the canvas has that of the latest, and where a
\* later copy is transparent the canvas keeps what an earlier one painted.
C10_CompositeOrder ==
    Composited => \A p \in Coords(image_size) : TopmostWins(Layers, p)

C10_Witness ==
    /\ Composited
    /\ \E p \in Coords(image_size) : \E i, j \in 1 .. Len(functions) :
          /\ i < j
          /\ Layers[i].px[p][4] = 255
          /\ Layers[j].px[p][4] = 255
          /\ Layers[i].px[p] # Layers[j].px[p]
          /\ canvas.px[p] = Layers[j].px[p]
    /\ \E p \in Coords(image_size) : \E i, j \in 1 .. Len(functions) :
          /\ i < j
          /\ Layers[i].px[p][4] = 255
          /\ Layers[j].px[p][4] = 0
          /\ canvas.px[p] = Layers[i].px[p]

=============================================================================
